---------------------------- MODULE Spec2Model ----------------------------
(***************************************************************************)
(* Model of source/utils.hpp of Ultrahand-Overlay: the path safety guard   *)
(* isDangerousCombination and the command interpreter                      *)
(* interpretAndExecuteCommand.                                             *)
(*                                                                         *)
(* A std::string is modelled as a sequence of one-character strings, so    *)
(* that find, substr, == and += are computed character by character.       *)
(***************************************************************************)
EXTENDS Integers, Sequences, FiniteSets, TLC

VARIABLES
    patternPath,  \* argument of a direct call of isDangerousCombination
    verdict,      \* "none" before the call, then "dangerous" (true) or "safe"
    commands,     \* the argument of interpretAndExecuteCommand
    pc,           \* number of the loop iteration to run next, from 1
    jsonPath,     \* the local jsonPath (the active document path), <<>> = empty
    scratch,      \* the other locals declared at line 320, kept across iterations
    calls,        \* the collaborator calls made so far, in order
    dispatched,   \* list indices of the commands whose loop body has run
    phase         \* "running", "returned", or "poweredOff"

pathVars == <<patternPath, verdict>>

execVars == <<commands, pc, jsonPath, scratch, calls, dispatched, phase>>

vars == <<patternPath, verdict, commands, pc, jsonPath, scratch, calls,
          dispatched, phase>>

----------------------------------------------------------------------------
(* std::string primitives                                                  *)

\* s.find(pat) == 0
StartsWith(s, pat) ==
    /\ Len(pat) <= Len(s)
    /\ SubSeq(s, 1, Len(pat)) = pat

\* s.find(pat) != std::string::npos
Contains(s, pat) ==
    \E i \in 1..(Len(s) - Len(pat) + 1) : SubSeq(s, i, i + Len(pat) - 1) = pat

\* s.find(pat) as a 1-based position, 0 for npos
FindPos(s, pat) ==
    IF Contains(s, pat)
    THEN CHOOSE i \in 1..(Len(s) - Len(pat) + 1) :
            /\ SubSeq(s, i, i + Len(pat) - 1) = pat
            /\ \A j \in 1..(i - 1) : SubSeq(s, j, j + Len(pat) - 1) # pat
    ELSE 0

\* s.substr(n) with n counted from 0
Substr(s, n) == SubSeq(s, n + 1, Len(s))

RECURSIVE Concat(_)
Concat(ss) == IF ss = <<>> THEN <<>> ELSE Head(ss) \o Concat(Tail(ss))

----------------------------------------------------------------------------
(* Protected folders, utils.hpp:171-183                                    *)

SDMC_ROOT == <<"s","d","m","c",":","/">>
F_Nintendo == <<"s","d","m","c",":","/","N","i","n","t","e","n","d","o","/">>
F_emuMMC == <<"s","d","m","c",":","/","e","m","u","M","M","C","/">>
F_atmosphere == <<"s","d","m","c",":","/","a","t","m","o","s","p","h","e","r","e","/">>
F_bootloader == <<"s","d","m","c",":","/","b","o","o","t","l","o","a","d","e","r","/">>
F_switch == <<"s","d","m","c",":","/","s","w","i","t","c","h","/">>
F_config == <<"s","d","m","c",":","/","c","o","n","f","i","g","/">>

protectedFolders ==
    {F_Nintendo, F_emuMMC, F_atmosphere, F_bootloader, F_switch, F_config, SDMC_ROOT}

ultraProtectedFolders == {F_Nintendo, F_emuMMC}

\* utils.hpp:195-198
dangerousCombinationPatterns == {<<"*">>, <<"*", "/">>}

\* utils.hpp:201-204
dangerousPatterns == {<<".", ".">>, <<"~">>}

----------------------------------------------------------------------------
(* isDangerousCombination, utils.hpp:193-309                               *)

\* The split loop of lines 224-240 (and 265-281): relativePath is cut at
\* every '/', empty segments are dropped.
RECURSIVE SplitLoop(_, _, _, _)
SplitLoop(relativePath, i, pathSegment, pathSegments) ==
    IF i > Len(relativePath)
    THEN IF pathSegment # <<>> THEN Append(pathSegments, pathSegment)
                               ELSE pathSegments
    ELSE IF relativePath[i] = "/"
         THEN IF pathSegment # <<>>
              THEN SplitLoop(relativePath, i + 1, <<>>,
                             Append(pathSegments, pathSegment))
              ELSE SplitLoop(relativePath, i + 1, pathSegment, pathSegments)
         ELSE SplitLoop(relativePath, i + 1,
                        Append(pathSegment, relativePath[i]), pathSegments)

SplitPath(relativePath) == SplitLoop(relativePath, 1, <<>>, <<>>)

\* A faulty variant of UltraProtectedCheck: the folder is compared, not
\* searched for at the start.
UltraProtectedCheck_exact(p) ==
    \E ultraProtectedFolder \in ultraProtectedFolders : p = ultraProtectedFolder

\* lines 207-211
UltraProtectedCheck(p) ==
    \E ultraProtectedFolder \in ultraProtectedFolders :
        StartsWith(p, ultraProtectedFolder)

\* line 215
ProtectedExactCheck(p, protectedFolder) == p = protectedFolder

\* A faulty variant of SegmentPatterns: the wildcard counts as a dangerous
\* segment pattern as well.
SegmentPatterns_wild == dangerousPatterns \cup {<<"*">>}

\* the patterns looked for in every segment below a protected folder, line 244
SegmentPatterns == dangerousPatterns

\* lines 220-250
ProtectedSegmentCheck(p, protectedFolder) ==
    /\ StartsWith(p, protectedFolder)
    /\ LET relativePath == Substr(p, Len(protectedFolder))
           pathSegments == SplitPath(relativePath)
       IN  \E k \in 1..Len(pathSegments) :
               \E dangerousPattern \in SegmentPatterns :
                   Contains(pathSegments[k], dangerousPattern)

\* A faulty variant of CombinationCheck: only the bare "*" is compared.
CombinationCheck_star(p, protectedFolder) == p = protectedFolder \o <<"*">>

\* lines 253-257
CombinationCheck(p, protectedFolder) ==
    \E dangerousPattern \in dangerousCombinationPatterns :
        p = protectedFolder \o dangerousPattern

\* lines 261-291
SdmcSegmentCheck(p) ==
    /\ StartsWith(p, SDMC_ROOT)
    /\ LET relativePath == Substr(p, Len(SDMC_ROOT))
           pathSegments == SplitPath(relativePath)
       IN  \E k \in 1..Len(pathSegments) :
               pathSegments[k] \in dangerousPatterns

\* A faulty variant of RootWildcardCheck: the wildcard is looked for at
\* the first position of the root only.
RootWildcardCheck_lead(p) ==
    /\ Contains(p, <<":", "/">>)
    /\ p[1] = "*"

\* lines 294-299
RootWildcardCheck(p) ==
    /\ Contains(p, <<":", "/">>)
    /\ LET rootPath == SubSeq(p, 1, FindPos(p, <<":", "/">>) + 1)
       IN  Contains(rootPath, <<"*">>)

\* A faulty variant of CatchAllCheck: the final test is made per segment of
\* an sdmc:/ path, as at line 286, instead of on the whole string.
CatchAllCheck_segments(p) == SdmcSegmentCheck(p)

\* lines 302-306
CatchAllCheck(p) ==
    \E pattern \in dangerousPatterns : Contains(p, pattern)

isDangerousCombination(p) ==
    \/ UltraProtectedCheck(p)
    \/ \E protectedFolder \in protectedFolders :
          \/ ProtectedExactCheck(p, protectedFolder)
          \/ ProtectedSegmentCheck(p, protectedFolder)
          \/ CombinationCheck(p, protectedFolder)
    \/ SdmcSegmentCheck(p)
    \/ RootWildcardCheck(p)
    \/ CatchAllCheck(p)

----------------------------------------------------------------------------
(* Direct calls of the guard on bounded paths                              *)

\* number of fragments appended to a prefix to build a path
MaxFrags == 3

PathPrefixes ==
    protectedFolders \cup
    { <<>>,
      <<"s","d">>,
      <<"u","m","s",":","/">>,
      <<"s","d","m","c",":","/","N","i","n","t","e","n","d","o">>,
      <<"s","d","m","c",":","/","s","w","i","t","c","h">> }

PathFragments ==
    { <<"*">>, <<".",".">>, <<"~">>, <<"/">>, <<"x">>, <<":","/">>,
      <<"s","u","b","/">>, <<"N","i","n">> }

PathInputs ==
    { pre \o Concat(fs) :
        pre \in PathPrefixes,
        fs \in UNION { [1..n -> PathFragments] : n \in 0..MaxFrags } }

InitPath ==
    /\ patternPath \in PathInputs
    /\ verdict = "none"
    /\ commands = <<>>
    /\ pc = 1
    /\ jsonPath = <<>>
    /\ scratch = [v \in {} |-> <<>>]
    /\ calls = <<>>
    /\ dispatched = <<>>
    /\ phase = "returned"

CheckPath ==
    /\ verdict = "none"
    /\ verdict' = IF isDangerousCombination(patternPath) THEN "dangerous"
                                                        ELSE "safe"
    /\ UNCHANGED patternPath
    /\ UNCHANGED execVars

NextPath == CheckPath

PathSpec == InitPath /\ [][NextPath]_vars

----------------------------------------------------------------------------
(* Collaborators of the interpreter that are pure string functions.  Their *)
(* sources (path_funcs.hpp, get_funcs.hpp, hex_funcs.hpp, json_funcs.hpp)  *)
(* are included by utils.hpp:21-26.                                        *)

QuoteChars == {"'", "\""}

\* removeQuotes: one pair of surrounding quotes is taken off
removeQuotes(s) ==
    IF Len(s) >= 2 /\ s[1] \in QuoteChars /\ s[Len(s)] = s[1]
    THEN SubSeq(s, 2, Len(s) - 1)
    ELSE s

SDMC_VOLUME == <<"s","d","m","c",":">>

\* preprocessPath: quotes are removed and the path is rooted at sdmc:
preprocessPath(s) ==
    LET formattedPath == removeQuotes(s)
    IN  IF StartsWith(formattedPath, SDMC_VOLUME) THEN formattedPath
        ELSE SDMC_VOLUME \o formattedPath

HTTP_SCHEME == <<"h","t","t","p",":","/","/">>
HTTPS_SCHEME == <<"h","t","t","p","s",":","/","/">>

\* preprocessUrl: quotes are removed and a missing scheme is supplied
preprocessUrl(s) ==
    LET formattedUrl == removeQuotes(s)
    IN  IF StartsWith(formattedUrl, HTTP_SCHEME) \/ StartsWith(formattedUrl, HTTPS_SCHEME)
        THEN formattedUrl
        ELSE HTTPS_SCHEME \o formattedUrl

HexDigits == <<"0","1","2","3","4","5","6","7","8","9","A","B","C","D","E","F">>

HexByte(n) == <<HexDigits[(n \div 16) + 1], HexDigits[(n % 16) + 1]>>

\* character codes of the letters the modelled scripts use as ASCII operands
AsciiCode == [c \in {"A", "B", "C", "D"} |->
                 CASE c = "A" -> 65 [] c = "B" -> 66 [] c = "C" -> 67 [] c = "D" -> 68]

\* asciiToHex: two hex digits per character
RECURSIVE asciiToHex(_)
asciiToHex(s) ==
    IF s = <<>> THEN <<>> ELSE HexByte(AsciiCode[Head(s)]) \o asciiToHex(Tail(s))

DigitValue == [c \in {"0","1","2","3","4","5","6","7","8","9"} |->
                 CHOOSE n \in 0..9 : HexDigits[n + 1] = c]

RECURSIVE ParseDecimal(_, _)
ParseDecimal(s, acc) ==
    IF s = <<>> THEN acc ELSE ParseDecimal(Tail(s), acc * 10 + DigitValue[Head(s)])

RECURSIVE HexOfNat(_)
HexOfNat(n) ==
    IF n = 0 THEN <<>> ELSE Append(HexOfNat(n \div 16), HexDigits[(n % 16) + 1])

\* decimalToHex: the hexadecimal digits of the number, padded to whole bytes
decimalToHex(s) ==
    LET hexadecimal == HexOfNat(ParseDecimal(s, 0))
    IN  IF Len(hexadecimal) % 2 # 0 THEN <<"0">> \o hexadecimal ELSE hexadecimal

RECURSIVE ReverseBytes(_)
ReverseBytes(h) ==
    IF Len(h) < 2 THEN h ELSE ReverseBytes(SubSeq(h, 3, Len(h))) \o SubSeq(h, 1, 2)

\* decimalToReversedHex: decimalToHex with the order of the bytes reversed
decimalToReversedHex(s) == ReverseBytes(decimalToHex(s))

JSON_MARKER == <<"{","j","s","o","n","_","d","a","t","a","(">>
JSON_CLOSE == <<")","}">>

A_JSON == <<"s","d","m","c",":","/","a">>
B_JSON == <<"s","d","m","c",":","/","b">>

\* The structured documents on storage: the value reached by an accessor in
\* the document stored at a path, <<>> when there is none.
JsonValue(path, accessor) ==
    IF accessor = <<"v">> /\ path = B_JSON THEN <<"m","k","d","i","r">>
    ELSE IF accessor # <<"k">> THEN <<>>
    ELSE IF path = A_JSON THEN <<"/","N","i","n","t","e","n","d","o","/">>
    ELSE IF path = B_JSON THEN <<"/","x">>
    ELSE <<>>

\* replaceJsonSourcePlaceholder: every {json_data(accessor)} of the argument
\* is replaced by the value the accessor reaches in the document at path
RECURSIVE replaceJsonSourcePlaceholder(_, _)
replaceJsonSourcePlaceholder(arg, path) ==
    LET startPos == FindPos(arg, JSON_MARKER)
    IN  IF startPos = 0 THEN arg
        ELSE LET rest == SubSeq(arg, startPos + Len(JSON_MARKER), Len(arg))
                 endPos == FindPos(rest, JSON_CLOSE)
             IN  IF endPos = 0 THEN arg
                 ELSE SubSeq(arg, 1, startPos - 1)
                      \o JsonValue(path, SubSeq(rest, 1, endPos - 1))
                      \o replaceJsonSourcePlaceholder(
                             SubSeq(rest, endPos + Len(JSON_CLOSE), Len(rest)), path)

----------------------------------------------------------------------------
(* Verbs, utils.hpp:359-594                                                *)

V_json_data == <<"j","s","o","n","_","d","a","t","a">>
V_make == <<"m","a","k","e">>
V_mkdir == <<"m","k","d","i","r">>
V_copy == <<"c","o","p","y">>
V_cp == <<"c","p">>
V_mirror_copy == <<"m","i","r","r","o","r","_","c","o","p","y">>
V_mirror_cp == <<"m","i","r","r","o","r","_","c","p">>
V_delete == <<"d","e","l","e","t","e">>
V_del == <<"d","e","l">>
V_mirror_delete == <<"m","i","r","r","o","r","_","d","e","l","e","t","e">>
V_mirror_del == <<"m","i","r","r","o","r","_","d","e","l">>
V_rename == <<"r","e","n","a","m","e">>
V_move == <<"m","o","v","e">>
V_mv == <<"m","v">>
V_set_ini_val == <<"s","e","t","-","i","n","i","-","v","a","l">>
V_set_ini_value == <<"s","e","t","-","i","n","i","-","v","a","l","u","e">>
V_set_ini_key == <<"s","e","t","-","i","n","i","-","k","e","y">>
V_hex_by_offset == <<"h","e","x","-","b","y","-","o","f","f","s","e","t">>
V_hex_by_custom_offset == <<"h","e","x","-","b","y","-","c","u","s","t","o","m","-","o","f","f","s","e","t">>
V_hex_by_swap == <<"h","e","x","-","b","y","-","s","w","a","p">>
V_hex_by_string == <<"h","e","x","-","b","y","-","s","t","r","i","n","g">>
V_hex_by_decimal == <<"h","e","x","-","b","y","-","d","e","c","i","m","a","l">>
V_hex_by_rdecimal == <<"h","e","x","-","b","y","-","r","d","e","c","i","m","a","l">>
V_download == <<"d","o","w","n","l","o","a","d">>
V_unzip == <<"u","n","z","i","p">>
V_reboot == <<"r","e","b","o","o","t">>
V_shutdown == <<"s","h","u","t","d","o","w","n">>

JsonDataVerbs == {V_json_data}
MakeVerbs == {V_make, V_mkdir}
CopyVerbs == {V_copy, V_cp}
MirrorCopyVerbs == {V_mirror_copy, V_mirror_cp}
DeleteVerbs == {V_delete, V_del}
MirrorDeleteVerbs == {V_mirror_delete, V_mirror_del}
MoveVerbs == {V_rename, V_move, V_mv}
SetIniValVerbs == {V_set_ini_val, V_set_ini_value}
SetIniKeyVerbs == {V_set_ini_key}
HexFindReplaceVerbs == {V_hex_by_swap, V_hex_by_string, V_hex_by_decimal, V_hex_by_rdecimal}
PowerVerbs == {V_reboot, V_shutdown}

KnownVerbs ==
    JsonDataVerbs \cup MakeVerbs \cup CopyVerbs \cup MirrorCopyVerbs \cup DeleteVerbs
    \cup MirrorDeleteVerbs \cup MoveVerbs \cup SetIniValVerbs \cup SetIniKeyVerbs
    \cup {V_hex_by_offset, V_hex_by_custom_offset} \cup HexFindReplaceVerbs
    \cup {V_download, V_unzip} \cup PowerVerbs

\* utils.hpp:35-36
SpsmShutdownMode_Normal == 0
SpsmShutdownMode_Reboot == 1

----------------------------------------------------------------------------
(* interpretAndExecuteCommand, utils.hpp:319-601: one loop iteration       *)

\* A faulty variant of VisitIndex: the list is walked from its end.
VisitIndex_reverse(k, n) == n + 1 - k

\* The range-for of line 322 visits the commands in list order: iteration k
\* of n visits list index k.
VisitIndex(k, n) == k

idx == VisitIndex(pc, Len(commands))

unmodifiedCommand == commands[idx]

\* A faulty variant of ModifiedCommand: the tokens are passed through the
\* resolver whether or not a document path is set.
ModifiedCommand_always(unmodified, path) ==
    [i \in 1..Len(unmodified) |->
        IF Contains(unmodified[i], JSON_MARKER)
        THEN replaceJsonSourcePlaceholder(unmodified[i], path)
        ELSE unmodified[i]]

\* lines 336-355: the tokens the dispatch works on
ModifiedCommand(unmodified, path) ==
    IF path # <<>>
    THEN [i \in 1..Len(unmodified) |->
            IF Contains(unmodified[i], JSON_MARKER)
            THEN replaceJsonSourcePlaceholder(unmodified[i], path)
            ELSE unmodified[i]]
    ELSE unmodified

command == ModifiedCommand(unmodifiedCommand, jsonPath)

\* A faulty variant of commandName: the name is read from the tokens after
\* the placeholders are resolved.
commandName_resolved == command[1]

\* line 331
commandName == unmodifiedCommand[1]

\* command[k] with k counted from 0 as in the source.  Every read in the
\* source is inside a size check that makes k < command.size().
Token(k) == IF k < Len(command) THEN command[k + 1] ELSE <<>>

\* The size each branch requires before it acts (the command.size() >= n
\* tests of lines 360-584); reboot and shutdown have no test.
MinTokensTable(name) ==
    CASE name \in JsonDataVerbs \cup MakeVerbs \cup MirrorCopyVerbs
                  \cup DeleteVerbs \cup MirrorDeleteVerbs -> 2
      [] name \in CopyVerbs \cup MoveVerbs \cup {V_download, V_unzip} -> 3
      [] name \in HexFindReplaceVerbs \cup {V_hex_by_offset} -> 4
      [] name \in SetIniValVerbs \cup SetIniKeyVerbs \cup {V_hex_by_custom_offset} -> 5
      [] OTHER -> 1

\* A faulty variant of MinTokens: the copy branch tests for 2 tokens
\* instead of 3.
MinTokens_copy2(name) == IF name \in CopyVerbs THEN 2 ELSE MinTokensTable(name)

MinTokens(name) == MinTokensTable(name)

\* A faulty variant of LoopControl: the loop is left when a collaborator
\* reports a failure.
LoopControl_abort(newCalls) ==
    IF \E i \in 1..Len(newCalls) : ~newCalls[i].ok THEN "returned" ELSE "running"

\* No branch inspects what its collaborator returned and none breaks or
\* returns (lines 322-600): the loop goes on after whatever calls were made.
LoopControl(newCalls) == "running"

\* A faulty variant of DeleteGuard: the delete branch acts without the
\* test, as the mirror_delete branch does.
DeleteGuard_none(sourcePath) == TRUE

\* line 401
DeleteGuard(sourcePath) == ~isDangerousCombination(sourcePath)

\* A faulty variant of MoveGuard: the test is made on token 1 as written,
\* before the placeholder is resolved.
MoveGuard_raw(sourcePath) ==
    ~isDangerousCombination(preprocessPath(unmodifiedCommand[2]))

\* line 429
MoveGuard(sourcePath) == ~isDangerousCombination(sourcePath)

\* A faulty variant of HasWildcard: no source is taken for a pattern.
HasWildcard_none(sourcePath) == FALSE

\* sourcePath.find('*') != std::string::npos, lines 378, 402, 430
HasWildcard(sourcePath) == Contains(sourcePath, <<"*">>)

Call(op, args, ok) == [op |-> op, args |-> args, cmd |-> idx, ok |-> ok]

\* an iteration of the loop on a non-empty command whose name is in names
Iteration(names) ==
    /\ phase = "running"
    /\ pc <= Len(commands)
    /\ unmodifiedCommand # <<>>
    /\ commandName \in names

\* the end of an iteration
Commit(newJsonPath, newScratch, newCalls, newPhase) ==
    /\ jsonPath' = newJsonPath
    /\ scratch' = [newScratch EXCEPT !.commandName = commandName]
    /\ calls' = calls \o newCalls
    /\ dispatched' = Append(dispatched, idx)
    /\ pc' = pc + 1
    /\ phase' = newPhase
    /\ UNCHANGED <<commands, patternPath, verdict>>

Skip == Commit(jsonPath, scratch, <<>>, LoopControl(<<>>))

\* lines 325-328
EmptyCommand ==
    /\ phase = "running"
    /\ pc <= Len(commands)
    /\ unmodifiedCommand = <<>>
    /\ dispatched' = Append(dispatched, idx)
    /\ pc' = pc + 1
    /\ UNCHANGED <<commands, jsonPath, scratch, calls, phase, patternPath, verdict>>

\* A faulty variant of JsonData: the path is assigned only while it is
\* still empty, so a later json_data does not replace it.
JsonData_first ==
    /\ Iteration(JsonDataVerbs)
    /\ IF Len(command) >= MinTokens(commandName) /\ jsonPath = <<>>
       THEN Commit(preprocessPath(Token(1)), scratch, <<>>, LoopControl(<<>>))
       ELSE Skip

\* lines 359-362
JsonData ==
    /\ Iteration(JsonDataVerbs)
    /\ IF Len(command) >= MinTokens(commandName)
       THEN Commit(preprocessPath(Token(1)), scratch, <<>>, LoopControl(<<>>))
       ELSE Skip

\* lines 363-368
MakeDirectory ==
    /\ Iteration(MakeVerbs)
    /\ IF Len(command) >= MinTokens(commandName)
       THEN \E ok \in BOOLEAN :
              LET sourcePath == preprocessPath(Token(1))
                  newCalls == <<Call("createDirectory", <<sourcePath>>, ok)>>
              IN  Commit(jsonPath, [scratch EXCEPT !.sourcePath = sourcePath],
                         newCalls, LoopControl(newCalls))
       ELSE Skip

\* lines 371-385
Copy ==
    /\ Iteration(CopyVerbs)
    /\ IF Len(command) >= MinTokens(commandName)
       THEN \E ok \in BOOLEAN :
              LET sourcePath == preprocessPath(Token(1))
                  destinationPath == preprocessPath(Token(2))
                  newCalls ==
                      IF HasWildcard(sourcePath)
                      THEN <<Call("copyFileOrDirectoryByPattern",
                                  <<sourcePath, destinationPath>>, ok)>>
                      ELSE <<Call("copyFileOrDirectory",
                                  <<sourcePath, destinationPath>>, ok)>>
              IN  Commit(jsonPath,
                         [scratch EXCEPT !.sourcePath = sourcePath,
                                         !.destinationPath = destinationPath],
                         newCalls, LoopControl(newCalls))
       ELSE Skip

\* lines 386-396
MirrorCopy ==
    /\ Iteration(MirrorCopyVerbs)
    /\ IF Len(command) >= MinTokens(commandName)
       THEN \E ok \in BOOLEAN :
              LET sourcePath == preprocessPath(Token(1))
                  destinationPath == IF Len(command) >= 3 THEN preprocessPath(Token(2))
                                     ELSE scratch.destinationPath
                  newCalls ==
                      IF Len(command) >= 3
                      THEN <<Call("mirrorCopyFiles", <<sourcePath, destinationPath>>, ok)>>
                      ELSE <<Call("mirrorCopyFiles", <<sourcePath>>, ok)>>
              IN  Commit(jsonPath,
                         [scratch EXCEPT !.sourcePath = sourcePath,
                                         !.destinationPath = destinationPath],
                         newCalls, LoopControl(newCalls))
       ELSE Skip

\* lines 397-409
Delete ==
    /\ Iteration(DeleteVerbs)
    /\ IF Len(command) >= MinTokens(commandName)
       THEN \E ok \in BOOLEAN :
              LET sourcePath == preprocessPath(Token(1))
                  newCalls ==
                      IF DeleteGuard(sourcePath)
                      THEN IF HasWildcard(sourcePath)
                           THEN <<Call("deleteFileOrDirectoryByPattern", <<sourcePath>>, ok)>>
                           ELSE <<Call("deleteFileOrDirectory", <<sourcePath>>, ok)>>
                      ELSE <<>>
              IN  Commit(jsonPath, [scratch EXCEPT !.sourcePath = sourcePath],
                         newCalls, LoopControl(newCalls))
       ELSE Skip

\* lines 410-419
MirrorDelete ==
    /\ Iteration(MirrorDeleteVerbs)
    /\ IF Len(command) >= MinTokens(commandName)
       THEN \E ok \in BOOLEAN :
              LET sourcePath == preprocessPath(Token(1))
                  destinationPath == IF Len(command) >= 3 THEN preprocessPath(Token(2))
                                     ELSE scratch.destinationPath
                  newCalls ==
                      IF Len(command) >= 3
                      THEN <<Call("mirrorDeleteFiles", <<sourcePath, destinationPath>>, ok)>>
                      ELSE <<Call("mirrorDeleteFiles", <<sourcePath>>, ok)>>
              IN  Commit(jsonPath,
                         [scratch EXCEPT !.sourcePath = sourcePath,
                                         !.destinationPath = destinationPath],
                         newCalls, LoopControl(newCalls))
       ELSE Skip

\* lines 420-444
Move ==
    /\ Iteration(MoveVerbs)
    /\ IF Len(command) >= MinTokens(commandName)
       THEN \E ok \in BOOLEAN :
              LET sourcePath == preprocessPath(Token(1))
                  destinationPath == preprocessPath(Token(2))
                  newCalls ==
                      IF MoveGuard(sourcePath)
                      THEN IF HasWildcard(sourcePath)
                           THEN <<Call("moveFilesOrDirectoriesByPattern",
                                       <<sourcePath, destinationPath>>, ok)>>
                           ELSE <<Call("moveFileOrDirectory",
                                       <<sourcePath, destinationPath>>, ok)>>
                      ELSE <<>>
              IN  Commit(jsonPath,
                         [scratch EXCEPT !.sourcePath = sourcePath,
                                         !.destinationPath = destinationPath],
                         newCalls, LoopControl(newCalls))
       ELSE Skip

\* The concatenation loops of lines 453-458 and 470-475: the tokens from
\* index i on are appended to acc, with one space between two tokens.
RECURSIVE AppendTokens(_, _, _)
AppendTokens(acc, cmd, i) ==
    IF i >= Len(cmd) THEN acc
    ELSE AppendTokens(acc \o cmd[i + 1] \o (IF i < Len(cmd) - 1 THEN <<" ">> ELSE <<>>),
                      cmd, i + 1)

\* lines 445-461
SetIniVal ==
    /\ Iteration(SetIniValVerbs)
    /\ IF Len(command) >= MinTokens(commandName)
       THEN \E ok \in BOOLEAN :
              LET sourcePath == preprocessPath(Token(1))
                  desiredSection == removeQuotes(Token(2))
                  desiredKey == removeQuotes(Token(3))
                  desiredValue == AppendTokens(scratch.desiredValue, command, 4)
                  newCalls == <<Call("setIniFileValue",
                                     <<sourcePath, desiredSection, desiredKey, desiredValue>>,
                                     ok)>>
              IN  Commit(jsonPath,
                         [scratch EXCEPT !.sourcePath = sourcePath,
                                         !.desiredSection = desiredSection,
                                         !.desiredKey = desiredKey,
                                         !.desiredValue = desiredValue],
                         newCalls, LoopControl(newCalls))
       ELSE Skip

\* lines 462-478
SetIniKey ==
    /\ Iteration(SetIniKeyVerbs)
    /\ IF Len(command) >= MinTokens(commandName)
       THEN \E ok \in BOOLEAN :
              LET sourcePath == preprocessPath(Token(1))
                  desiredSection == removeQuotes(Token(2))
                  desiredKey == removeQuotes(Token(3))
                  desiredNewKey == AppendTokens(scratch.desiredNewKey, command, 4)
                  newCalls == <<Call("setIniFileKey",
                                     <<sourcePath, desiredSection, desiredKey, desiredNewKey>>,
                                     ok)>>
              IN  Commit(jsonPath,
                         [scratch EXCEPT !.sourcePath = sourcePath,
                                         !.desiredSection = desiredSection,
                                         !.desiredKey = desiredKey,
                                         !.desiredNewKey = desiredNewKey],
                         newCalls, LoopControl(newCalls))
       ELSE Skip

\* lines 479-488
HexByOffset ==
    /\ Iteration({V_hex_by_offset})
    /\ IF Len(command) >= MinTokens(commandName)
       THEN \E ok \in BOOLEAN :
              LET sourcePath == preprocessPath(Token(1))
                  offset == removeQuotes(Token(2))
                  hexDataReplacement == removeQuotes(Token(3))
                  newCalls == <<Call("hexEditByOffset",
                                     <<sourcePath, offset, hexDataReplacement>>, ok)>>
              IN  Commit(jsonPath,
                         [scratch EXCEPT !.sourcePath = sourcePath,
                                         !.offset = offset,
                                         !.hexDataReplacement = hexDataReplacement],
                         newCalls, LoopControl(newCalls))
       ELSE Skip

\* lines 489-498
HexByCustomOffset ==
    /\ Iteration({V_hex_by_custom_offset})
    /\ IF Len(command) >= MinTokens(commandName)
       THEN \E ok \in BOOLEAN :
              LET sourcePath == preprocessPath(Token(1))
                  customPattern == removeQuotes(Token(2))
                  offset == removeQuotes(Token(3))
                  hexDataReplacement == removeQuotes(Token(4))
                  newCalls == <<Call("hexEditByCustomOffset",
                                     <<sourcePath, customPattern, offset, hexDataReplacement>>,
                                     ok)>>
              IN  Commit(jsonPath,
                         [scratch EXCEPT !.sourcePath = sourcePath,
                                         !.customPattern = customPattern,
                                         !.offset = offset,
                                         !.hexDataReplacement = hexDataReplacement],
                         newCalls, LoopControl(newCalls))
       ELSE Skip

\* A faulty variant of FindReplaceCommit: without a fifth token the
\* occurrence left by an earlier command is passed.
FindReplaceCommit_leak(sourcePath, hexDataToReplace, hexDataReplacement, ok) ==
    LET occurrence == IF Len(command) >= 5 THEN removeQuotes(Token(4))
                      ELSE scratch.occurrence
        newCalls ==
            IF occurrence # <<>>
            THEN <<Call("hexEditFindReplace",
                        <<sourcePath, hexDataToReplace, hexDataReplacement, occurrence>>, ok)>>
            ELSE <<Call("hexEditFindReplace",
                        <<sourcePath, hexDataToReplace, hexDataReplacement>>, ok)>>
    IN  Commit(jsonPath,
               [scratch EXCEPT !.sourcePath = sourcePath,
                               !.hexDataToReplace = hexDataToReplace,
                               !.hexDataReplacement = hexDataReplacement,
                               !.occurrence = occurrence],
               newCalls, LoopControl(newCalls))

\* The tail shared by the four find/replace branches (lines 507-512, 533-538,
\* 550-555, 567-572): the occurrence is read and passed only when there is a
\* fifth token.
FindReplaceCommit(sourcePath, hexDataToReplace, hexDataReplacement, ok) ==
    LET occurrence == IF Len(command) >= 5 THEN removeQuotes(Token(4))
                      ELSE scratch.occurrence
        newCalls ==
            IF Len(command) >= 5
            THEN <<Call("hexEditFindReplace",
                        <<sourcePath, hexDataToReplace, hexDataReplacement, occurrence>>, ok)>>
            ELSE <<Call("hexEditFindReplace",
                        <<sourcePath, hexDataToReplace, hexDataReplacement>>, ok)>>
    IN  Commit(jsonPath,
               [scratch EXCEPT !.sourcePath = sourcePath,
                               !.hexDataToReplace = hexDataToReplace,
                               !.hexDataReplacement = hexDataReplacement,
                               !.occurrence = occurrence],
               newCalls, LoopControl(newCalls))

\* lines 499-513
HexBySwap ==
    /\ Iteration({V_hex_by_swap})
    /\ IF Len(command) >= MinTokens(commandName)
       THEN \E ok \in BOOLEAN :
              FindReplaceCommit(preprocessPath(Token(1)), removeQuotes(Token(2)),
                                removeQuotes(Token(3)), ok)
       ELSE Skip

\* std::string(n, '\0'), lines 527 and 530
NulChars(n) == [i \in 1..n |-> "NUL"]

\* A faulty variant of PadTo: nothing is appended.
PadTo_none(s, other) == s

\* lines 525-531: the shorter of the two strings is lengthened to the length
\* of the other one
PadTo(s, other) ==
    IF Len(s) < Len(other) THEN s \o NulChars(Len(other) - Len(s)) ELSE s

\* lines 514-539
HexByString ==
    /\ Iteration({V_hex_by_string})
    /\ IF Len(command) >= MinTokens(commandName)
       THEN \E ok \in BOOLEAN :
              LET hexDataToReplace == asciiToHex(removeQuotes(Token(2)))
                  hexDataReplacement == asciiToHex(removeQuotes(Token(3)))
              IN  FindReplaceCommit(preprocessPath(Token(1)),
                                    PadTo(hexDataToReplace, hexDataReplacement),
                                    PadTo(hexDataReplacement, hexDataToReplace), ok)
       ELSE Skip

\* lines 540-556
HexByDecimal ==
    /\ Iteration({V_hex_by_decimal})
    /\ IF Len(command) >= MinTokens(commandName)
       THEN \E ok \in BOOLEAN :
              FindReplaceCommit(preprocessPath(Token(1)),
                                decimalToHex(removeQuotes(Token(2))),
                                decimalToHex(removeQuotes(Token(3))), ok)
       ELSE Skip

\* lines 557-573
HexByRdecimal ==
    /\ Iteration({V_hex_by_rdecimal})
    /\ IF Len(command) >= MinTokens(commandName)
       THEN \E ok \in BOOLEAN :
              FindReplaceCommit(preprocessPath(Token(1)),
                                decimalToReversedHex(removeQuotes(Token(2))),
                                decimalToReversedHex(removeQuotes(Token(3))), ok)
       ELSE Skip

LOG_PREFIX == <<"f","i","l","e","U","r","l",":"," ">>

\* lines 574-581
Download ==
    /\ Iteration({V_download})
    /\ IF Len(command) >= MinTokens(commandName)
       THEN \E ok \in BOOLEAN :
              LET fileUrl == preprocessUrl(Token(1))
                  destinationPath == preprocessPath(Token(2))
                  newCalls == <<Call("logMessage", <<LOG_PREFIX \o fileUrl>>, TRUE),
                                Call("downloadFile", <<fileUrl, destinationPath>>, ok)>>
              IN  Commit(jsonPath,
                         [scratch EXCEPT !.fileUrl = fileUrl,
                                         !.destinationPath = destinationPath],
                         newCalls, LoopControl(newCalls))
       ELSE Skip

\* lines 582-588
Unzip ==
    /\ Iteration({V_unzip})
    /\ IF Len(command) >= MinTokens(commandName)
       THEN \E ok \in BOOLEAN :
              LET sourcePath == preprocessPath(Token(1))
                  destinationPath == preprocessPath(Token(2))
                  newCalls == <<Call("unzipFile", <<sourcePath, destinationPath>>, ok)>>
              IN  Commit(jsonPath,
                         [scratch EXCEPT !.sourcePath = sourcePath,
                                         !.destinationPath = destinationPath],
                         newCalls, LoopControl(newCalls))
       ELSE Skip

\* A faulty variant of PowerCalls: the power transition is requested
\* before the storage is unmounted.
PowerCalls_early(mode, ok) ==
    <<Call("splExit", <<>>, TRUE),
      Call("spsmShutdown", << <<HexDigits[mode + 1]>> >>, ok),
      Call("fsdevUnmountAll", <<>>, TRUE)>>

\* The three statements of lines 591-593 and 596-598.  spsmShutdown is a
\* request to the power service: the statement has no break or return after
\* it, so when the request comes back the loop goes on.
PowerCalls(mode, ok) ==
    <<Call("splExit", <<>>, TRUE),
      Call("fsdevUnmountAll", <<>>, TRUE),
      Call("spsmShutdown", << <<HexDigits[mode + 1]>> >>, ok)>>

\* lines 589-593
Reboot ==
    /\ Iteration({V_reboot})
    /\ \E ok \in BOOLEAN :
          Commit(jsonPath, scratch, PowerCalls(SpsmShutdownMode_Reboot, ok), "running")

\* lines 594-599
Shutdown ==
    /\ Iteration({V_shutdown})
    /\ \E ok \in BOOLEAN :
          Commit(jsonPath, scratch, PowerCalls(SpsmShutdownMode_Normal, ok), "running")

\* a name that no test of the chain 359-594 matches: the iteration ends
UnknownVerb ==
    /\ phase = "running"
    /\ pc <= Len(commands)
    /\ unmodifiedCommand # <<>>
    /\ commandName \notin KnownVerbs
    /\ Skip

\* A power transition that was requested successfully takes effect at some
\* later moment and ends the process wherever the loop then is.
ShutdownRequested ==
    \E i \in 1..Len(calls) : calls[i].op = "spsmShutdown" /\ calls[i].ok

PowerTransition ==
    /\ phase = "running"
    /\ ShutdownRequested
    /\ phase' = "poweredOff"
    /\ UNCHANGED <<commands, pc, jsonPath, scratch, calls, dispatched, patternPath, verdict>>

\* line 601: the loop is over
Return ==
    /\ phase = "running"
    /\ pc > Len(commands)
    /\ phase' = "returned"
    /\ UNCHANGED <<commands, pc, jsonPath, scratch, calls, dispatched, patternPath, verdict>>

Next ==
    \/ EmptyCommand
    \/ JsonData
    \/ MakeDirectory
    \/ Copy
    \/ MirrorCopy
    \/ Delete
    \/ MirrorDelete
    \/ Move
    \/ SetIniVal
    \/ SetIniKey
    \/ HexByOffset
    \/ HexByCustomOffset
    \/ HexBySwap
    \/ HexByString
    \/ HexByDecimal
    \/ HexByRdecimal
    \/ Download
    \/ Unzip
    \/ Reboot
    \/ Shutdown
    \/ UnknownVerb
    \/ PowerTransition
    \/ Return

----------------------------------------------------------------------------
(* Command lists                                                           *)

\* the longest command list
MaxCmds == 2

P_x == <<"/","x">>
P_y == <<"/","y">>
P_a == <<"/","a">>
P_b == <<"/","b">>
P_x_all == <<"/","x","/","*">>
P_x_up == <<"/","x","/",".","."  >>
P_Nintendo == <<"/","N","i","n","t","e","n","d","o","/">>
P_switch_all == <<"s","d","m","c",":","/","s","w","i","t","c","h","/","*">>
P_placeholder == <<"{","j","s","o","n","_","d","a","t","a","(","k",")","}">>
T_sec == <<"'","s","'">>
T_key == <<"k">>
T_A == <<"A">>
T_AB == <<"A","B">>
T_CD == <<"C","D">>
T_ABCD == <<"A","B","C","D">>
T_10 == <<"1","0">>
T_255 == <<"2","5","5">>
T_256 == <<"2","5","6">>
T_1 == <<"1">>
T_url == <<"h","/","f">>
V_nop == <<"n","o","p">>

\* one acting command for every branch of the chain, the empty command and
\* a command with an unknown name
BaseCommands ==
    { <<>>,
      <<V_nop, P_x>>,
      <<V_json_data, P_a>>,
      <<V_mkdir, P_x>>,
      <<V_copy, P_x_all, P_y>>,
      <<V_mirror_copy, P_x>>,
      <<V_delete, P_x>>,
      <<V_mirror_delete, P_x>>,
      <<V_move, P_x, P_y>>,
      <<V_set_ini_val, P_x, T_sec, T_key, T_A, T_AB>>,
      <<V_set_ini_key, P_x, T_sec, T_key, T_A>>,
      <<V_hex_by_offset, P_x, T_10, T_AB>>,
      <<V_hex_by_custom_offset, P_x, T_AB, T_10, T_CD>>,
      <<V_hex_by_swap, P_x, T_AB, T_CD>>,
      <<V_hex_by_string, P_x, T_AB, T_ABCD>>,
      <<V_hex_by_decimal, P_x, T_10, T_255>>,
      <<V_hex_by_rdecimal, P_x, T_256, T_10>>,
      <<V_download, T_url, P_y>>,
      <<V_unzip, P_x, P_y>>,
      <<V_reboot>>,
      <<V_shutdown>> }

\* destructive commands on dangerous, wildcard and placeholder paths
GuardCommands ==
    { <<V_json_data, P_b>>,
      <<V_copy, P_x, P_y>>,
      <<V_delete, P_Nintendo>>,
      <<V_delete, P_switch_all>>,
      <<V_delete, P_x_all>>,
      <<V_delete, P_placeholder>>,
      <<V_del, P_Nintendo>>,
      <<V_mirror_delete, P_Nintendo>>,
      <<V_mirror_del, P_x, P_y>>,
      <<V_move, P_Nintendo, P_y>>,
      <<V_move, P_x_all, P_y>>,
      <<V_mv, P_placeholder, P_y>>,
      <<V_rename, P_x_up, P_y>>,
      <<V_hex_by_swap, P_x, T_AB, T_CD, T_1>> }

CommandLists(pool) == UNION { [1..n -> pool] : n \in 0..MaxCmds }

EmptyScratch ==
    [v \in {"commandName", "sourcePath", "destinationPath", "desiredSection",
            "desiredKey", "desiredNewKey", "desiredValue", "offset", "customPattern",
            "hexDataToReplace", "hexDataReplacement", "fileUrl", "occurrence"} |-> <<>>]

\* the state at line 321, before the first iteration
Start(lists) ==
    /\ commands \in lists
    /\ pc = 1
    /\ jsonPath = <<>>
    /\ scratch = EmptyScratch
    /\ calls = <<>>
    /\ dispatched = <<>>
    /\ phase = "running"
    /\ patternPath = <<>>
    /\ verdict = "none"

Init == Start(CommandLists(BaseCommands \cup GuardCommands))

Spec == Init /\ [][Next]_vars

\* For every verb name a command with exactly the tokens its branch asks
\* for; the commands with too few tokens are the proper prefixes of these.
FullCommands ==
    { <<V_json_data, P_a>>,
      <<V_make, P_x>>,
      <<V_mkdir, P_x>>,
      <<V_copy, P_a, P_y>>,
      <<V_cp, P_a, P_y>>,
      <<V_mirror_copy, P_x>>,
      <<V_mirror_cp, P_x>>,
      <<V_delete, P_x>>,
      <<V_del, P_x>>,
      <<V_mirror_delete, P_x>>,
      <<V_mirror_del, P_x>>,
      <<V_rename, P_x, P_y>>,
      <<V_move, P_x, P_y>>,
      <<V_mv, P_x, P_y>>,
      <<V_set_ini_val, P_x, T_sec, T_key, T_A>>,
      <<V_set_ini_value, P_x, T_sec, T_key, T_A>>,
      <<V_set_ini_key, P_x, T_sec, T_key, T_A>>,
      <<V_hex_by_offset, P_x, T_10, T_AB>>,
      <<V_hex_by_custom_offset, P_x, T_AB, T_10, T_CD>>,
      <<V_hex_by_swap, P_x, T_AB, T_CD>>,
      <<V_hex_by_string, P_x, T_AB, T_ABCD>>,
      <<V_hex_by_decimal, P_x, T_10, T_255>>,
      <<V_hex_by_rdecimal, P_x, T_256, T_10>>,
      <<V_download, T_url, P_y>>,
      <<V_unzip, P_x, P_y>> }

ShortCommands ==
    UNION { { SubSeq(c, 1, n) : n \in 1..(Len(c) - 1) } : c \in FullCommands }

ArityCommands ==
    ShortCommands \cup
    { <<>>, <<V_nop>>, <<V_json_data, P_a>>, <<V_mkdir, P_x>>, <<V_reboot>>, <<V_shutdown>> }

ArityInit == Start(CommandLists(ArityCommands))

\* the interpreter on lists of commands that have too few tokens
AritySpec == ArityInit /\ [][Next]_vars

P_verb == <<"{","j","s","o","n","_","d","a","t","a","(","v",")","}">>
P_embedded == <<"/","y","{","j","s","o","n","_","d","a","t","a","(","k",")","}">>

\* commands around the active document: json_data with one and two tokens,
\* and tokens that hold the placeholder marker
DocCommands ==
    BaseCommands \cup
    { <<P_verb, P_x>>,
      <<V_json_data>>,
      <<V_json_data, P_b>>,
      <<V_json_data, P_placeholder>>,
      <<V_mkdir, P_embedded>>,
      <<V_copy, P_placeholder, P_embedded>>,
      <<V_delete, P_placeholder>>,
      <<V_mv, P_placeholder, P_y>> }

DocInit == Start(CommandLists(DocCommands))

\* the interpreter on lists that set and use the active document
DocSpec == DocInit /\ [][Next]_vars

T_qCD == <<"'","C","D","'">>

\* hex-by-string with a shorter, a longer and an equally long second
\* operand, with and without an occurrence
HexCommands ==
    BaseCommands \cup
    { <<V_hex_by_string, P_x, T_ABCD, T_AB>>,
      <<V_hex_by_string, P_x, T_AB, T_CD>>,
      <<V_hex_by_string, P_x, T_A, T_ABCD, T_1>>,
      <<V_hex_by_string, P_x, T_qCD, T_A>> }

HexInit == Start(CommandLists(HexCommands))

\* the interpreter on lists that patch by string
HexSpec == HexInit /\ [][Next]_vars

P_any_any == <<"s","d","m","c",":","/","*","/","*">>
P_Nin_all == <<"/","N","i","n","*">>
P_all_all == <<"s","d","m","c",":","/","*","*">>
P_root_all == <<"s","d","m","c",":","/","*">>

\* delete and move with wildcard sources at the top of the volume
GlobCommands ==
    BaseCommands \cup
    { <<V_delete, P_any_any>>,
      <<V_delete, P_Nin_all>>,
      <<V_delete, P_root_all>>,
      <<V_delete, P_x_all>>,
      <<V_move, P_all_all, P_y>>,
      <<V_mv, P_x_all, P_y>> }

GlobInit == Start(CommandLists(GlobCommands))

\* the interpreter on lists that delete and move by pattern
GlobSpec == GlobInit /\ [][Next]_vars

----------------------------------------------------------------------------
(* Properties of the interpreter                                           *)

IsPowerCommand(c) == c # <<>> /\ c[1] \in PowerVerbs

NoTerminal == \A j \in 1..Len(commands) : ~IsPowerCommand(commands[j])

\* the list indices whose iteration is over
Done == { dispatched[k] : k \in 1..Len(dispatched) }

CallsOf(j) == { i \in 1..Len(calls) : calls[i].cmd = j }

\* What the specification calls the resolved and normalized token 1 of the
\* command at list index j, read off the list alone: the active document
\* path is the normalized token 1 of the last json_data command before j
\* that has two tokens.
ResolvedToken(t, path) ==
    IF path # <<>> /\ Contains(t, JSON_MARKER)
    THEN replaceJsonSourcePlaceholder(t, path)
    ELSE t

RECURSIVE ActivePathBefore(_)
ActivePathBefore(j) ==
    IF j <= 1 THEN <<>>
    ELSE LET before == ActivePathBefore(j - 1)
             c == commands[j - 1]
         IN  IF c # <<>> /\ c[1] = V_json_data /\ Len(c) >= 2
             THEN preprocessPath(ResolvedToken(c[2], before))
             ELSE before

SourcePathOf(j) == preprocessPath(ResolvedToken(commands[j][2], ActivePathBefore(j)))

IsGuardedCommand(c) == c # <<>> /\ c[1] \in DeleteVerbs \cup MoveVerbs /\ Len(c) >= 2

DeleteMovePrimitives ==
    { "deleteFileOrDirectory", "deleteFileOrDirectoryByPattern",
      "moveFileOrDirectory", "moveFilesOrDirectoriesByPattern" }

\* C1: a delete/del or rename/move/mv command whose source path (token 1
\* after placeholder resolution and normalization) is dangerous invokes none
\* of the four delete and move primitives, no primitive is ever handed a
\* dangerous source, and the run goes on with the next command.
C1_DangerousDeleteMoveIsNoOp ==
    /\ \A j \in Done :
          (IsGuardedCommand(commands[j]) /\ isDangerousCombination(SourcePathOf(j)))
          => /\ \A i \in CallsOf(j) : calls[i].op \notin DeleteMovePrimitives
             /\ (phase = "returned" => \A n \in (j + 1)..Len(commands) : n \in Done)
    /\ \A i \in 1..Len(calls) :
          calls[i].op \in DeleteMovePrimitives
          => ~isDangerousCombination(calls[i].args[1])

\* a dangerous move was skipped and the following command made its call
C1_Witness ==
    \E j \in Done :
       /\ IsGuardedCommand(commands[j])
       /\ commands[j][1] \in MoveVerbs
       /\ isDangerousCombination(SourcePathOf(j))
       /\ CallsOf(j) = {}
       /\ CallsOf(j + 1) # {}

\* C2: mirror_delete/mirror_del is a no-op on a dangerous path:
\* mirrorDeleteFiles is never invoked with a source path for which
\* isDangerousCombination is true.
C2_MirrorDeleteNeverOnDangerousPath ==
    \A i \in 1..Len(calls) :
       calls[i].op = "mirrorDeleteFiles" => ~isDangerousCombination(calls[i].args[1])

\* C7: after a reboot or shutdown command is executed no later command of
\* the list executes: once the first reboot/shutdown of the list has had its
\* power request accepted, no call belongs to a command placed after it and
\* the active document path stays the one in force at that command.
FirstPower ==
    IF NoTerminal THEN 0
    ELSE CHOOSE j \in 1..Len(commands) :
            /\ IsPowerCommand(commands[j])
            /\ \A n \in 1..(j - 1) : ~IsPowerCommand(commands[n])

PowerRequestAccepted(j) ==
    \E i \in CallsOf(j) : calls[i].op = "spsmShutdown" /\ calls[i].ok

C7_PowerCommandIsTerminal ==
    (FirstPower # 0 /\ PowerRequestAccepted(FirstPower))
    => /\ \A i \in 1..Len(calls) : calls[i].cmd <= FirstPower
       /\ jsonPath = ActivePathBefore(FirstPower)

\* C8: the calls are made in list order: in a list without a terminal
\* command no call of command j precedes a call of command i < j, the
\* commands are taken one by one from the first, and a mkdir placed before a
\* copy has its createDirectory call before the copy's call.
C8_CallsInListOrder ==
    NoTerminal
    => /\ \A a, b \in 1..Len(calls) : a < b => calls[a].cmd <= calls[b].cmd
       /\ \A k \in 1..Len(dispatched) : dispatched[k] = k
       /\ \A a, b \in 1..Len(calls) :
             ( /\ calls[a].op = "createDirectory"
               /\ calls[b].op = "copyFileOrDirectoryByPattern"
               /\ calls[a].cmd < calls[b].cmd ) => a < b

\* [mkdir /x, copy /x/* /y] has run: createDirectory, then the pattern copy
C8_Witness ==
    /\ commands = << <<V_mkdir, P_x>>, <<V_copy, P_x_all, P_y>> >>
    /\ phase = "returned"
    /\ Len(calls) = 2
    /\ calls[1].op = "createDirectory"
    /\ calls[2].op = "copyFileOrDirectoryByPattern"

\* The minimum number of tokens the specification gives for each verb.
DocumentedMinTokens(name) ==
    CASE name = V_json_data -> 2
      [] name \in {V_make, V_mkdir} -> 2
      [] name \in {V_copy, V_cp} -> 3
      [] name \in {V_mirror_copy, V_mirror_cp} -> 2
      [] name \in {V_delete, V_del} -> 2
      [] name \in {V_mirror_delete, V_mirror_del} -> 2
      [] name \in {V_rename, V_move, V_mv} -> 3
      [] name \in {V_set_ini_val, V_set_ini_value} -> 5
      [] name = V_set_ini_key -> 5
      [] name = V_hex_by_offset -> 4
      [] name = V_hex_by_custom_offset -> 5
      [] name \in {V_hex_by_swap, V_hex_by_string, V_hex_by_decimal, V_hex_by_rdecimal} -> 4
      [] name \in {V_download, V_unzip} -> 3
      [] OTHER -> 0

TooShort(c) == c = <<>> \/ Len(c) < DocumentedMinTokens(c[1])

\* C9: the iteration on an empty command or on a command with fewer tokens
\* than its verb's minimum makes no call, leaves the active document path as
\* it is and leaves the loop running for the commands after it.
C9_TooFewTokensIsSkipped ==
    [][ (pc' = pc + 1 /\ TooShort(commands[pc]))
        => (calls' = calls /\ jsonPath' = jsonPath /\ phase' = "running") ]_vars

\* ["copy", "/a"] was skipped and the command after it made its call
C9_Witness ==
    /\ Len(commands) = 2
    /\ commands[1] = <<V_copy, P_a>>
    /\ Done = {1, 2}
    /\ CallsOf(1) = {}
    /\ CallsOf(2) # {}

\* C10: in a list without reboot/shutdown every command is dispatched
\* exactly once, in whatever way the calls end: the iterations done are
\* 1, 2, ... without gap or repetition, the run is never cut short, and it
\* returns only after the last command, all commands having been dispatched.
C10_FailureNeverAborts ==
    NoTerminal
    => /\ dispatched = [k \in 1..(pc - 1) |-> k]
       /\ pc <= Len(commands) + 1
       /\ phase \in {"running", "returned"}
       /\ (phase = "returned" => Len(dispatched) = Len(commands))

\* a run has returned after a failed call of its first command and a call
\* of its second command
C10_Witness ==
    /\ NoTerminal
    /\ phase = "returned"
    /\ Len(commands) = 2
    /\ \E i \in CallsOf(1) : ~calls[i].ok
    /\ CallsOf(2) # {}

\* the last json_data command with two tokens or more whose iteration is
\* over, 0 when there is none
IsJsonDataSetter(c) == c # <<>> /\ c[1] = V_json_data /\ Len(c) >= 2

LastJsonData ==
    LET S == { j \in Done : IsJsonDataSetter(commands[j]) }
    IN  IF S = {} THEN 0 ELSE CHOOSE j \in S : \A n \in S : n <= j

\* C11: at every point of a run the active document path is the normalized
\* token 1 of the most recent json_data command with at least 2 tokens
\* executed so far, and is unset when there was none: no other command and
\* no json_data with fewer than 2 tokens clears or changes it, and a later
\* json_data replaces it.
C11_ActivePathIsLastJsonData ==
    IF LastJsonData = 0
    THEN jsonPath = <<>>
    ELSE /\ jsonPath # <<>>
         /\ jsonPath = preprocessPath(ResolvedToken(commands[LastJsonData][2],
                                                    ActivePathBefore(LastJsonData)))

\* [json_data /a, json_data /b] has run: the path is that of the second
C11_Witness ==
    /\ commands = << <<V_json_data, P_a>>, <<V_json_data, P_b>> >>
    /\ Done = {1, 2}
    /\ jsonPath = B_JSON

\* the list index of the first json_data command, Len(commands) + 1 when
\* the list has none
FirstJsonData ==
    LET S == { j \in 1..Len(commands) :
                  commands[j] # <<>> /\ commands[j][1] = V_json_data }
    IN  IF S = {} THEN Len(commands) + 1 ELSE CHOOSE j \in S : \A n \in S : j <= n

\* Token k (counted from 0) of the command at list index j as the claim
\* says it reaches the dispatch: as written up to the first json_data
\* command, and after it with every token that holds the marker replaced by
\* the resolver's result for the active path (an argument resolved with no
\* active document being the argument itself).
ExpectedToken(j, k) ==
    LET t == commands[j][k + 1]
    IN  IF j <= FirstJsonData THEN t ELSE ResolvedToken(t, ActivePathBefore(j))

\* C12: placeholders are resolved exactly when the active document path is
\* set: the tokens of every command up to and including the first json_data
\* command reach the dispatch unchanged even if they hold "{json_data(", and
\* for every later command each token with the marker is replaced by the
\* resolver's result for the current active path and each token without it
\* is unchanged.  The tokens are observed where the loop is about to
\* dispatch them and in the operands createDirectory and the copy
\* primitives were called with.
C12_ResolutionIffPathSet ==
    /\ (phase = "running" /\ pc <= Len(commands) /\ commands[pc] # <<>>)
       => \A k \in 0..(Len(commands[pc]) - 1) :
             LET t == commands[pc][k + 1]
             IN  /\ command[k + 1] = ExpectedToken(pc, k)
                 /\ (jsonPath = <<>> \/ ~Contains(t, JSON_MARKER)) => command[k + 1] = t
                 /\ (jsonPath # <<>> /\ Contains(t, JSON_MARKER))
                    => command[k + 1] = replaceJsonSourcePlaceholder(t, jsonPath)
    /\ \A i \in 1..Len(calls) :
          /\ calls[i].op = "createDirectory"
             => calls[i].args[1] = preprocessPath(ExpectedToken(calls[i].cmd, 1))
          /\ calls[i].op \in {"copyFileOrDirectory", "copyFileOrDirectoryByPattern"}
             => /\ calls[i].args[1] = preprocessPath(ExpectedToken(calls[i].cmd, 1))
                /\ calls[i].args[2] = preprocessPath(ExpectedToken(calls[i].cmd, 2))

\* [json_data /b, mkdir /y{json_data(k)}] has run: the directory made is
\* sdmc:/y/x
C12_Witness ==
    /\ commands = << <<V_json_data, P_b>>, <<V_mkdir, P_embedded>> >>
    /\ Len(calls) = 1
    /\ calls[1].op = "createDirectory"
    /\ calls[1].args[1] = SDMC_VOLUME \o <<"/","y","/","x">>

\* the tokens joined with single spaces
RECURSIVE JoinWithSpaces(_)
JoinWithSpaces(ts) ==
    IF ts = <<>> THEN <<>>
    ELSE IF Len(ts) = 1 THEN ts[1]
    ELSE ts[1] \o <<" ">> \o JoinWithSpaces(Tail(ts))

\* tokens 4..end of the command at list index j, as dispatched
TailTokens(j) ==
    [k \in 1..(Len(commands[j]) - 4) |->
        ResolvedToken(commands[j][k + 4], ActivePathBefore(j))]

\* C13: for every set-ini-val/set-ini-value command, wherever it stands in
\* the list, the value passed to setIniFileValue is tokens 4..end of that
\* command joined with single spaces, and for every set-ini-key command the
\* new key passed to setIniFileKey is tokens 4..end of that command joined
\* with single spaces.
C13_IniValueIsJoinedTail ==
    \A i \in 1..Len(calls) :
       calls[i].op \in {"setIniFileValue", "setIniFileKey"}
       => calls[i].args[4] = JoinWithSpaces(TailTokens(calls[i].cmd))

\* the copy, delete and move commands that act: enough tokens and, for
\* delete and move, a source that is not dangerous
ActsOnSource(j) ==
    LET c == commands[j]
    IN  /\ c # <<>>
        /\ \/ c[1] \in CopyVerbs /\ Len(c) >= 3
           \/ c[1] \in DeleteVerbs /\ Len(c) >= 2 /\ ~isDangerousCombination(SourcePathOf(j))
           \/ c[1] \in MoveVerbs /\ Len(c) >= 3 /\ ~isDangerousCombination(SourcePathOf(j))

PatternPrimitive(name) ==
    IF name \in CopyVerbs THEN "copyFileOrDirectoryByPattern"
    ELSE IF name \in DeleteVerbs THEN "deleteFileOrDirectoryByPattern"
    ELSE "moveFilesOrDirectoriesByPattern"

SinglePathPrimitive(name) ==
    IF name \in CopyVerbs THEN "copyFileOrDirectory"
    ELSE IF name \in DeleteVerbs THEN "deleteFileOrDirectory"
    ELSE "moveFileOrDirectory"

\* C14: the wildcard alone selects the primitive, in the same way for copy,
\* delete and move: a command that acts makes exactly one call, to the
\* pattern-based primitive of its verb when its normalized source holds '*'
\* and to the single-path primitive when it does not, and never to both.
C14_WildcardSelectsPrimitive ==
    \A j \in Done :
       ActsOnSource(j)
       => /\ Cardinality(CallsOf(j)) = 1
          /\ \A i \in CallsOf(j) :
                /\ calls[i].op = IF Contains(SourcePathOf(j), <<"*">>)
                                 THEN PatternPrimitive(commands[j][1])
                                 ELSE SinglePathPrimitive(commands[j][1])
                /\ calls[i].args[1] = SourcePathOf(j)

\* [delete /x/*, move /x /y] has run: the pattern delete, then the
\* single-path move
C14_Witness ==
    /\ commands = << <<V_delete, P_x_all>>, <<V_move, P_x, P_y>> >>
    /\ Len(calls) = 2
    /\ calls[1].op = "deleteFileOrDirectoryByPattern"
    /\ calls[2].op = "moveFileOrDirectory"

\* the calls made by the hex-by-string commands
HexByStringCalls ==
    { i \in 1..Len(calls) :
         /\ calls[i].op = "hexEditFindReplace"
         /\ commands[calls[i].cmd][1] = V_hex_by_string }

\* operand k (2: find, 3: replace) of the hex-by-string command at list
\* index j: the token as dispatched, without its quotes
AsciiOperand(j, k) ==
    removeQuotes(ResolvedToken(commands[j][k + 1], ActivePathBefore(j)))

EncodedOperand(j, k) == asciiToHex(AsciiOperand(j, k))

\* C15: the find and the replace operand a hex-by-string command hands to
\* hexEditFindReplace have the same length; the operand whose encoding is
\* the longer one (or both, when they are equally long) is passed as
\* encoded, and the other one is passed as its encoding followed by padding
\* characters only.
C15_HexByStringEqualLength ==
    \A i \in HexByStringCalls :
       LET j == calls[i].cmd
           find == calls[i].args[2]
           repl == calls[i].args[3]
           encFind == EncodedOperand(j, 2)
           encRepl == EncodedOperand(j, 3)
       IN  /\ Len(find) = Len(repl)
           /\ Len(encFind) >= Len(encRepl) => find = encFind
           /\ Len(encRepl) >= Len(encFind) => repl = encRepl
           /\ StartsWith(find, encFind)
           /\ StartsWith(repl, encRepl)
           /\ \A n \in (Len(encFind) + 1)..Len(find) : find[n] = "NUL"
           /\ \A n \in (Len(encRepl) + 1)..Len(repl) : repl[n] = "NUL"

\* [hex-by-string /x ABCD AB] has run: the replacement was lengthened
C15_Witness ==
    \E i \in HexByStringCalls :
       /\ commands[calls[i].cmd] = <<V_hex_by_string, P_x, T_ABCD, T_AB>>
       /\ calls[i].args[2] = <<"4","1","4","2","4","3","4","4">>
       /\ Len(calls[i].args[3]) = 8
       /\ SubSeq(calls[i].args[3], 1, 4) = <<"4","1","4","2">>

\* a byte-hex string: two hex digits for every byte
IsByteHex(h) ==
    /\ Len(h) % 2 = 0
    /\ \A n \in 1..Len(h) : \E d \in 1..Len(HexDigits) : h[n] = HexDigits[d]

\* n null bytes in byte-hex form
NullBytesHex(n) == [i \in 1..(2 * n) |-> "0"]

\* C16: the padding hex-by-string adds to the shorter operand stands for
\* exactly (length of the longer ASCII operand - length of the shorter one)
\* null bytes in the byte-hex form hexEditFindReplace consumes: both
\* operands passed are well-formed byte-hex strings, and the shorter one is
\* its encoding followed by that many null bytes ("AB" against "ABCD" is
\* passed as the bytes 41 42 00 00).
C16_PaddingIsNullBytes ==
    \A i \in HexByStringCalls :
       LET j == calls[i].cmd
           find == calls[i].args[2]
           repl == calls[i].args[3]
           asciiFind == AsciiOperand(j, 2)
           asciiRepl == AsciiOperand(j, 3)
       IN  /\ IsByteHex(find)
           /\ IsByteHex(repl)
           /\ Len(asciiFind) < Len(asciiRepl)
              => find = asciiToHex(asciiFind)
                        \o NullBytesHex(Len(asciiRepl) - Len(asciiFind))
           /\ Len(asciiRepl) < Len(asciiFind)
              => repl = asciiToHex(asciiRepl)
                        \o NullBytesHex(Len(asciiFind) - Len(asciiRepl))

\* the mode operand as it is recorded in a spsmShutdown call
ModeOperand(mode) == <<HexDigits[mode + 1]>>

\* C17: for reboot and shutdown the storage is unmounted before the power
\* transition is requested: every spsmShutdown call comes right after the
\* fsdevUnmountAll call of the same command; reboot requests the reboot
\* mode and shutdown the normal-shutdown mode; and a reboot or shutdown
\* command of one token acts.
C17_UnmountBeforePowerTransition ==
    /\ \A i \in 1..Len(calls) :
          calls[i].op = "spsmShutdown"
          => /\ i > 1
             /\ calls[i - 1].op = "fsdevUnmountAll"
             /\ calls[i - 1].cmd = calls[i].cmd
             /\ \A u \in 1..Len(calls) :
                   (calls[u].op = "fsdevUnmountAll" /\ calls[u].cmd = calls[i].cmd)
                   => u < i
             /\ commands[calls[i].cmd][1] = V_reboot
                => calls[i].args[1] = ModeOperand(SpsmShutdownMode_Reboot)
             /\ commands[calls[i].cmd][1] = V_shutdown
                => calls[i].args[1] = ModeOperand(SpsmShutdownMode_Normal)
    /\ \A j \in Done :
          commands[j] \in {<<V_reboot>>, <<V_shutdown>>}
          => \E i, u \in CallsOf(j) :
                calls[u].op = "fsdevUnmountAll" /\ calls[i].op = "spsmShutdown"

\* [shutdown] has run: unmount, then the request for the normal mode
C17_Witness ==
    /\ commands = << <<V_shutdown>> >>
    /\ Len(calls) = 3
    /\ calls[2].op = "fsdevUnmountAll"
    /\ calls[3].op = "spsmShutdown"
    /\ calls[3].args[1] = ModeOperand(SpsmShutdownMode_Normal)
    /\ calls[3].ok

MirrorPrimitives == {"mirrorCopyFiles", "mirrorDeleteFiles"}

\* C19: an optional operand never comes from an earlier command: a
\* mirror_copy or mirror_delete command of exactly 2 tokens calls its
\* primitive with the source alone, whatever destination an earlier command
\* has set, and a hex-by-swap/string/decimal/rdecimal command of exactly 4
\* tokens calls hexEditFindReplace without an occurrence, whatever
\* occurrence an earlier command has given.
C19_OptionalOperandsDoNotLeak ==
    /\ \A i \in 1..Len(calls) :
          /\ (calls[i].op \in MirrorPrimitives /\ Len(commands[calls[i].cmd]) = 2)
             => calls[i].args = <<SourcePathOf(calls[i].cmd)>>
          /\ (calls[i].op = "hexEditFindReplace" /\ Len(commands[calls[i].cmd]) = 4)
             => Len(calls[i].args) = 3
    /\ \A j \in Done :
          ( /\ commands[j] # <<>>
            /\ \/ commands[j][1] \in MirrorCopyVerbs \cup MirrorDeleteVerbs
                  /\ Len(commands[j]) = 2
               \/ commands[j][1] \in HexFindReplaceVerbs /\ Len(commands[j]) = 4 )
          => Cardinality(CallsOf(j)) = 1

\* [hex-by-swap /x AB CD 1, hex-by-swap /x AB CD] has run: the second call
\* has no occurrence although the first one had
C19_Witness ==
    /\ commands = << <<V_hex_by_swap, P_x, T_AB, T_CD, T_1>>,
                     <<V_hex_by_swap, P_x, T_AB, T_CD>> >>
    /\ Len(calls) = 2
    /\ calls[1].args = <<SDMC_VOLUME \o P_x, T_AB, T_CD, T_1>>
    /\ calls[2].args = <<SDMC_VOLUME \o P_x, T_AB, T_CD>>
    /\ scratch.occurrence = T_1

\* the delete and move commands that reach the guard
ReachesGuard(c) ==
    /\ c # <<>>
    /\ \/ c[1] \in DeleteVerbs /\ Len(c) >= 2
       \/ c[1] \in MoveVerbs /\ Len(c) >= 3

\* C20: for delete and move the path the guard is evaluated on is the path
\* handed to the primitive: the path left in sourcePath by the command, the
\* one the guard has tested, is token 1 after placeholder resolution and
\* normalization; the command calls its primitive exactly when that path is
\* not dangerous, and with that very path, so a value brought in by a
\* placeholder does not get round the guard.
C20_GuardSeesPrimitivePath ==
    /\ \A j \in Done :
          ReachesGuard(commands[j])
          => /\ (CallsOf(j) = {}) <=> isDangerousCombination(SourcePathOf(j))
             /\ \A i \in CallsOf(j) :
                   /\ calls[i].op \in DeleteMovePrimitives
                   /\ calls[i].args[1] = SourcePathOf(j)
             /\ j = pc - 1 => scratch.sourcePath = SourcePathOf(j)
    /\ \A i \in 1..Len(calls) :
          calls[i].op \in DeleteMovePrimitives
          => /\ ReachesGuard(commands[calls[i].cmd])
             /\ ~isDangerousCombination(calls[i].args[1])

\* [json_data /a, mv {json_data(k)} /y] has run: the placeholder brought in
\* /Nintendo/, the guard saw sdmc:/Nintendo/ and nothing was moved
C20_Witness ==
    /\ commands = << <<V_json_data, P_a>>, <<V_mv, P_placeholder, P_y>> >>
    /\ Done = {1, 2}
    /\ scratch.sourcePath = F_Nintendo
    /\ calls = <<>>

\* The paths a wildcard source selects: '*' stands for any run of
\* characters of one path segment, every other character for itself.
RECURSIVE GlobMatches(_, _)
GlobMatches(glob, path) ==
    IF glob = <<>> THEN path = <<>>
    ELSE IF Head(glob) = "*"
    THEN \/ GlobMatches(Tail(glob), path)
         \/ path # <<>> /\ Head(path) # "/" /\ GlobMatches(glob, Tail(path))
    ELSE path # <<>> /\ Head(path) = Head(glob) /\ GlobMatches(Tail(glob), Tail(path))

\* the ultra-protected folders themselves and an entry of each
UltraProtectedEntries ==
    UNION { { WithoutSlash, WithoutSlash \o <<"/","x">> } :
              WithoutSlash \in { SubSeq(U, 1, Len(U) - 1) : U \in ultraProtectedFolders } }

ReachesUltraProtected(glob) ==
    \E path \in UltraProtectedEntries : GlobMatches(glob, path)

PatternDeleteMovePrimitives ==
    {"deleteFileOrDirectoryByPattern", "moveFilesOrDirectoriesByPattern"}

\* C22: after any sequence of delete and move commands nothing under an
\* ultra-protected folder has been deleted or moved by the pattern
\* primitives: a wildcard source whose pattern can select sdmc:/Nintendo/
\* or sdmc:/emuMMC/ or an entry under them (sdmc:/*/*, sdmc:/Nin*, sdmc:/**)
\* is never handed to deleteFileOrDirectoryByPattern or
\* moveFilesOrDirectoriesByPattern.
C22_PatternNeverReachesUltraProtected ==
    \A i \in 1..Len(calls) :
       calls[i].op \in PatternDeleteMovePrimitives
       => ~ReachesUltraProtected(calls[i].args[1])

\* the verbs of the command table
RecognizedVerbs ==
    { V_json_data, V_make, V_mkdir, V_copy, V_cp, V_mirror_copy, V_mirror_cp,
      V_delete, V_del, V_mirror_delete, V_mirror_del, V_rename, V_move, V_mv,
      V_set_ini_val, V_set_ini_value, V_set_ini_key, V_hex_by_offset,
      V_hex_by_custom_offset, V_hex_by_swap, V_hex_by_string, V_hex_by_decimal,
      V_hex_by_rdecimal, V_download, V_unzip, V_reboot, V_shutdown }

\* C23: the iteration on a command whose token 0, as written in the list,
\* is not a recognized verb makes no call, leaves the active document path
\* as it is and leaves the loop running for the commands after it, also
\* when token 0 holds a placeholder that resolves to a verb.
C23_UnknownVerbIsSkipped ==
    [][ (pc' = pc + 1 /\ commands[pc] # <<>> /\ commands[pc][1] \notin RecognizedVerbs)
        => (calls' = calls /\ jsonPath' = jsonPath /\ phase' = "running") ]_vars

\* [json_data /b, {json_data(v)} /x] has run: the document gives "mkdir"
\* for v, and no directory was made
C23_Witness ==
    /\ commands = << <<V_json_data, P_b>>, <<P_verb, P_x>> >>
    /\ Done = {1, 2}
    /\ replaceJsonSourcePlaceholder(commands[2][1], jsonPath) = V_mkdir
    /\ calls = <<>>
    /\ phase = "returned"

----------------------------------------------------------------------------
(* Properties of isDangerousCombination                                    *)

Checked == verdict # "none"

\* C3: every path that begins with an ultra-protected folder is dangerous,
\* whatever follows the folder (nothing, wildcards, further segments).
C3_UltraProtectedPrefixIsDangerous ==
    (Checked /\ \E U \in {F_Nintendo, F_emuMMC} : StartsWith(patternPath, U))
    => verdict = "dangerous"

\* sdmc:/emuMMC/ followed by a suffix that holds a wildcard
C3_Witness ==
    /\ verdict = "dangerous"
    /\ StartsWith(patternPath, F_emuMMC)
    /\ Len(patternPath) > Len(F_emuMMC) + 1
    /\ Contains(patternPath, <<"*">>)
    /\ ~Contains(patternPath, <<".", ".">>)
    /\ ~Contains(patternPath, <<"~">>)

\* C4: every path that contains ".." or "~" anywhere is dangerous, inside a
\* protected folder, elsewhere under sdmc:/ and on no known volume.
C4_TraversalAnywhereIsDangerous ==
    (Checked /\ (Contains(patternPath, <<".", ".">>) \/ Contains(patternPath, <<"~">>)))
    => verdict = "dangerous"

\* a path on no volume with ".." inside a longer segment
C4_Witness ==
    /\ verdict = "dangerous"
    /\ ~Contains(patternPath, <<":", "/">>)
    /\ Contains(patternPath, <<"x", ".", ".">>)

\* C5: every protected folder F, F followed by "*" and F followed by "*/"
\* are dangerous.
C5_ProtectedFolderAndRootWildcard ==
    (Checked /\ \E F \in {F_Nintendo, F_emuMMC, F_atmosphere, F_bootloader,
                          F_switch, F_config, SDMC_ROOT} :
                    patternPath \in {F, F \o <<"*">>, F \o <<"*", "/">>})
    => verdict = "dangerous"

\* sdmc:/config/*/
C5_Witness ==
    /\ verdict = "dangerous"
    /\ patternPath = F_config \o <<"*", "/">>

VolumeRoot(p) ==
    IF Contains(p, <<":", "/">>) THEN SubSeq(p, 1, FindPos(p, <<":", "/">>) + 1) ELSE <<>>

\* C6: a path that meets none of the documented conditions is not
\* dangerous: no ultra-protected prefix, not a protected folder nor one
\* followed by "*" or "*/", no ".." and no "~", no "*" in the volume root.
C6_OtherPathsAreSafe ==
    ( /\ Checked
      /\ \A U \in {F_Nintendo, F_emuMMC} : ~StartsWith(patternPath, U)
      /\ \A F \in {F_Nintendo, F_emuMMC, F_atmosphere, F_bootloader,
                   F_switch, F_config, SDMC_ROOT} :
            patternPath \notin {F, F \o <<"*">>, F \o <<"*", "/">>}
      /\ ~Contains(patternPath, <<".", ".">>)
      /\ ~Contains(patternPath, <<"~">>)
      /\ ~Contains(VolumeRoot(patternPath), <<"*">>) )
    => verdict = "safe"

\* sdmc:/switch/sub/*
C6_Witness ==
    /\ verdict = "safe"
    /\ patternPath = F_switch \o <<"s", "u", "b", "/", "*">>

\* C18: every path that holds ":/" and whose volume root (everything up to
\* and including the first ":/") holds the wildcard '*' is dangerous,
\* whatever follows the root ("*:/x", "sd*:/x").
C18_RootWildcardIsDangerous ==
    ( /\ Checked
      /\ Contains(patternPath, <<":", "/">>)
      /\ \E n \in 1..(FindPos(patternPath, <<":", "/">>) + 1) : patternPath[n] = "*" )
    => verdict = "dangerous"

\* sd*:/x
C18_Witness ==
    /\ verdict = "dangerous"
    /\ patternPath = <<"s","d","*",":","/","x">>

\* a folder path written without its final '/'
WithoutTrailingSlash(F) == SubSeq(F, 1, Len(F) - 1)

\* C21: the guard gives the same answer, dangerous, for a protected or
\* ultra-protected folder F and for F written without its final '/'
\* (sdmc:/Nintendo and sdmc:/Nintendo/, sdmc:/switch and sdmc:/switch/).
C21_TrailingSlashDoesNotMatter ==
    (Checked /\ \E F \in protectedFolders \cup ultraProtectedFolders :
                    patternPath \in {F, WithoutTrailingSlash(F)})
    => verdict = "dangerous"

=============================================================================
